---- MODULE Spec2Model ----
(***************************************************************************)
(* Multi-objective genetic-algorithm driver of                             *)
(* SomeOthersScripts/genetic_algorithm_multiobjective.py: the phase loop   *)
(* of __main__ around deap's eaMuPlusLambda, with the operators the script *)
(* registers in its toolbox (cxTwoPointCopy, mutUniformInt, selNSGA2), the *)
(* ParetoFront hall of fame and the Logbook.                               *)
(*                                                                         *)
(* Sequences are 1-based here and 0-based in the script: gene i of the     *)
(* script is genes[i+1], and the slice [a:b] is the positions a+1..b.      *)
(* Probabilities are percentages. Floating-point statistics are kept as    *)
(* the integers they are computed from (see Compile).                      *)
(***************************************************************************)
EXTENDS Integers, Sequences, FiniteSets, TLC

(***************************************************************************)
(* Sizes.  The script runs 4 agents over 100 timesteps with 8 actions, 80  *)
(* individuals and 100 generations per phase; the model is scaled down.    *)
(* MaxFlips bounds the genes one call of the mutation resamples.           *)
(***************************************************************************)
N == 2

Horizon == 2

ActionCount == 1

n_individuals == 2

n_generations == 1

\* pool = mp.Pool(processes=8)
processes == 2

MaxFlips == 1

\* toolbox.register("mutate", tools.mutUniformInt, low=0, up=8, indpb=0.1):
\* the script passes up = the number of actions.
MutLow == 0

MutUp == ActionCount

\* for pb in [[0.8, 0.2], [0.7, 0.3], [0.5, 0.2]]   (cxpb, mutpb in percent)
Schedule == << <<80, 20>>, <<70, 30>>, <<50, 20>> >>

Size == Horizon * N

Pos == 1..Size

\* base.Fitness with no values: fitness.valid is False
NoFit == << >>

Valid(ind) == ind.fit # NoFit

(***************************************************************************)
(* Environment adapter (Environment.PatrollingEnvironment): reset() and    *)
(* step(actions) -> info with the scalars W and I.  A deterministic        *)
(* environment: W counts the moves of the even agents, I those of the odd  *)
(* agents.  env_kind names the adapter the run is given: that one, or the  *)
(* stub of the end-to-end scenario with W = sum(actions) and               *)
(* I = -sum(actions).                                                      *)
(***************************************************************************)
VARIABLE env_kind

RECURSIVE SumOver(_, _)
SumOver(f, S) ==
    IF S = {} THEN 0
    ELSE LET x == CHOOSE y \in S : TRUE IN f[x] + SumOver(f, S \ {x})

PatrolInfo(actions) ==
    [W |-> SumOver(actions, {i \in DOMAIN actions : i % 2 = 0}),
     I |-> SumOver(actions, {i \in DOMAIN actions : i % 2 = 1})]

StubInfo(actions) ==
    [W |-> SumOver(actions, DOMAIN actions),
     I |-> 0 - SumOver(actions, DOMAIN actions)]

EnvInfo(actions) ==
    IF env_kind = "stub" THEN StubInfo(actions) ELSE PatrolInfo(actions)

(***************************************************************************)
(* fitness_function: reshape to (T, N), reset, step t = 0..T-1 with        *)
(* actions = {i: individual[t, i]}, accumulate W and I.                    *)
(***************************************************************************)
\* the flat genes read agent by agent: reshape(N, -1) and individual[i, t]
ActionsTransposed(genes, t) ==
    [i \in 0..(N - 1) |-> genes[i * (Len(genes) \div N) + t + 1]]

Actions(genes, t) == [i \in 0..(N - 1) |-> genes[t * N + i + 1]]

RECURSIVE Episode(_, _, _)
Episode(genes, t, acc) ==
    IF t = Len(genes) \div N THEN acc
    ELSE LET info == EnvInfo(Actions(genes, t))
         IN Episode(genes, t + 1, <<acc[1] + info.W, acc[2] + info.I>>)

fitness_function(genes) == Episode(genes, 0, <<0, 0>>)

(***************************************************************************)
(* cxTwoPointCopy(ind1, ind2) with the two draws r1 = randint(1, size) and *)
(* r2 = randint(1, size - 1) (numpy: upper end excluded).                  *)
(***************************************************************************)
CxDraw1 == 1..(Size - 1)

CxDraw2 == 1..(Size - 2)

\* the second draw taken as it comes when it is not below the first
CxPointsNoShift(r1, r2) == IF r2 >= r1 THEN <<r1, r2>> ELSE <<r2, r1>>

CxPoints(r1, r2) == IF r2 >= r1 THEN <<r1, r2 + 1>> ELSE <<r2, r1>>

SwapRange(g1, g2, a, b) ==
    [i \in DOMAIN g1 |-> IF a < i /\ i <= b THEN g2[i] ELSE g1[i]]

\* the swap written without .copy(): the right-hand slices are views, and
\* ind2 receives what ind1 holds after its own slice was overwritten
cxTwoPointNoCopy(ind1, ind2, r1, r2) ==
    LET p == CxPoints(r1, r2)
        g1 == SwapRange(ind1.genes, ind2.genes, p[1], p[2])
    IN << [ind1 EXCEPT !.genes = g1],
          [ind2 EXCEPT !.genes = SwapRange(ind2.genes, g1, p[1], p[2])] >>

cxTwoPointCopy(ind1, ind2, r1, r2) ==
    LET p == CxPoints(r1, r2)
    IN << [ind1 EXCEPT !.genes = SwapRange(ind1.genes, ind2.genes, p[1], p[2])],
          [ind2 EXCEPT !.genes = SwapRange(ind2.genes, ind1.genes, p[1], p[2])] >>

(***************************************************************************)
(* tools.mutUniformInt(individual, low, up, indpb): each gene whose coin    *)
(* falls under indpb is replaced by random.randint(low, up), which         *)
(* includes both ends.  flips is the set of positions whose coin fell      *)
(* under indpb, draw the value drawn at each.                              *)
(***************************************************************************)
RandInt(low, up) == low..up

mutUniformInt(ind, flips, draw) ==
    [ind EXCEPT !.genes = [i \in DOMAIN ind.genes |->
                             IF i \in flips THEN draw[i] ELSE ind.genes[i]]]

(***************************************************************************)
(* Individuals.  An individual is [genes, fit, obj]: obj tells objects     *)
(* apart, since varOr's reproduction branch appends the parent itself (no  *)
(* clone), so that one object can stand at two places of a list.  In the   *)
(* population obj is the first position holding the object.                *)
(***************************************************************************)
\* WanderingAgent.move(position): a discrete action in [0, number_of_actions)
AgentMove == 0..(ActionCount - 1)

\* individualCreator(): one move per agent per timestep, flattened
individualCreator == [Pos -> AgentMove]

\* toolbox.population(n): tools.initRepeat(list, toolbox.individual, n)
Populations ==
    {[i \in 1..n_individuals |-> [genes |-> g[i], fit |-> NoFit, obj |-> i]] :
        g \in [1..n_individuals -> individualCreator]}

(***************************************************************************)
(* base.Fitness.dominates with weights (1.0, 1.0): no objective worse and  *)
(* at least one better.                                                    *)
(***************************************************************************)
RECURSIVE DomLoop(_, _, _, _)
DomLoop(f, g, i, not_equal) ==
    IF i > Len(f) THEN not_equal
    ELSE IF f[i] > g[i] THEN DomLoop(f, g, i + 1, TRUE)
    ELSE IF f[i] < g[i] THEN FALSE
    ELSE DomLoop(f, g, i + 1, not_equal)

Dominates(f, g) == DomLoop(f, g, 1, FALSE)

\* Fitness.__le__: the (weighted) values compared as tuples
FitLe(f, g) == f[1] < g[1] \/ (f[1] = g[1] /\ f[2] <= g[2])

(***************************************************************************)
(* tools.ParetoFront(similar=np.array_equal).update(population).  The hall *)
(* of fame is the list `items`, best fitness first; members are deep       *)
(* copies [genes, fit].                                                    *)
(***************************************************************************)
\* no two arrays are taken for the same
SimilarNever(ind, hofer) == FALSE

Similar(ind, hofer) == ind.genes = hofer.genes

RECURSIVE HofScan(_, _, _, _)
HofScan(items, ind, i, st) ==
    IF i > Len(items) THEN st
    ELSE IF ~st.dominates_one /\ Dominates(items[i].fit, ind.fit)
         THEN [st EXCEPT !.is_dominated = TRUE]
    ELSE IF Dominates(ind.fit, items[i].fit)
         THEN HofScan(items, ind, i + 1,
                      [st EXCEPT !.dominates_one = TRUE,
                                 !.to_remove = @ \cup {i}])
    ELSE IF ind.fit = items[i].fit /\ Similar(ind, items[i])
         THEN [st EXCEPT !.has_twin = TRUE]
    ELSE HofScan(items, ind, i + 1, st)

\* the dominated members are not taken out
HofRemoveNone(items, to_remove, i) == items

RECURSIVE HofRemove(_, _, _)
HofRemove(items, to_remove, i) ==
    IF i > Len(items) THEN << >>
    ELSE (IF i \in to_remove THEN << >> ELSE <<items[i]>>)
         \o HofRemove(items, to_remove, i + 1)

\* HallOfFame.insert: bisect_right on the ascending keys, i.e. the item goes
\* after the members whose fitness is greater than its own
HofInsert(items, item) ==
    LET greater == Cardinality({j \in DOMAIN items : ~FitLe(items[j].fit, item.fit)})
    IN SubSeq(items, 1, greater) \o <<item>> \o SubSeq(items, greater + 1, Len(items))

HofUpdateOne(items, ind) ==
    LET st == HofScan(items, ind, 1,
                      [is_dominated |-> FALSE, dominates_one |-> FALSE,
                       has_twin |-> FALSE, to_remove |-> {}])
        kept == HofRemove(items, st.to_remove, 1)
    IN IF ~st.is_dominated /\ ~st.has_twin
       THEN HofInsert(kept, [genes |-> ind.genes, fit |-> ind.fit])
       ELSE kept

RECURSIVE HofUpdate(_, _, _)
HofUpdate(items, population, i) ==
    IF i > Len(population) THEN items
    ELSE HofUpdate(HofUpdateOne(items, population[i]), population, i + 1)

(***************************************************************************)
(* tools.selNSGA2(individuals, k): sortNondominated, assignCrowdingDist,   *)
(* whole fronts first and the last front by crowding distance.             *)
(***************************************************************************)
\* map_fit_ind's keys: the distinct fitness values in order of appearance
RECURSIVE FitsOf(_, _, _)
FitsOf(individuals, i, fits) ==
    IF i > Len(individuals) THEN fits
    ELSE FitsOf(individuals, i + 1,
                IF \E a \in DOMAIN fits : fits[a] = individuals[i].fit
                THEN fits ELSE Append(fits, individuals[i].fit))

\* the ascending sequence of the members of a set of numbers
RECURSIVE Ascending(_)
Ascending(S) ==
    IF S = {} THEN << >>
    ELSE LET m == CHOOSE x \in S : \A y \in S : x <= y
         IN <<m>> \o Ascending(S \ {m})

\* map_fit_ind[fit]: the places of individuals holding that fitness
Holders(individuals, fit) ==
    Ascending({i \in DOMAIN individuals : individuals[i].fit = fit})

RECURSIVE FrontMembers(_, _, _, _)
FrontMembers(individuals, fits, front, a) ==
    IF a > Len(front) THEN << >>
    ELSE Holders(individuals, fits[front[a]])
         \o FrontMembers(individuals, fits, front, a + 1)

\* one pass of "for fit_p in current_front: for fit_d in dominated_fits[fit_p]"
RECURSIVE NextFront(_, _, _, _, _)
NextFront(fits, current, a, d, st) ==
    IF a > Len(current) THEN st
    ELSE IF d > Len(fits) THEN NextFront(fits, current, a + 1, 1, st)
    ELSE IF Dominates(fits[current[a]], fits[d])
         THEN NextFront(fits, current, a, d + 1,
                        [dominating |-> [st.dominating EXCEPT ![d] = @ - 1],
                         next_front |-> IF st.dominating[d] = 1
                                        THEN Append(st.next_front, d)
                                        ELSE st.next_front])
    ELSE NextFront(fits, current, a, d + 1, st)

Min(a, b) == IF a <= b THEN a ELSE b

RECURSIVE SortLoop(_, _, _, _, _, _, _)
SortLoop(individuals, fits, current, dominating, fronts, pareto_sorted, k) ==
    IF pareto_sorted >= Min(Len(individuals), k) THEN fronts
    ELSE LET st == NextFront(fits, current, 1, 1,
                             [dominating |-> dominating, next_front |-> << >>])
             members == FrontMembers(individuals, fits, st.next_front, 1)
         IN SortLoop(individuals, fits, st.next_front, st.dominating,
                     Append(fronts, members), pareto_sorted + Len(members), k)

\* tools.sortNondominated(individuals, k): the fronts, as places of individuals
sortNondominated(individuals, k) ==
    LET fits == FitsOf(individuals, 1, << >>)
        dominating == [a \in DOMAIN fits |->
                         Cardinality({b \in DOMAIN fits : Dominates(fits[b], fits[a])})]
        current == Ascending({a \in DOMAIN fits : dominating[a] = 0})
        first == FrontMembers(individuals, fits, current, 1)
    IN SortLoop(individuals, fits, current, dominating, <<first>>, Len(first), k)

\* list.sort(key=...): stable, ascending; order is a sequence of places
RECURSIVE StableSort(_, _)
StableSort(order, key) ==
    IF order = << >> THEN << >>
    ELSE LET a == CHOOSE x \in DOMAIN order :
                    /\ \A y \in DOMAIN order : key[order[x]] <= key[order[y]]
                    /\ \A y \in 1..(x - 1) : key[order[y]] # key[order[x]]
         IN <<order[a]>>
            \o StableSort(SubSeq(order, 1, a - 1) \o SubSeq(order, a + 1, Len(order)), key)

\* sorted(..., reverse=True): descending, equal keys keep their order
RECURSIVE StableSortDesc(_, _)
StableSortDesc(order, key) ==
    IF order = << >> THEN << >>
    ELSE LET a == CHOOSE x \in DOMAIN order :
                    /\ \A y \in DOMAIN order : key[order[x]] >= key[order[y]]
                    /\ \A y \in 1..(x - 1) : key[order[y]] # key[order[x]]
         IN <<order[a]>>
            \o StableSortDesc(SubSeq(order, 1, a - 1) \o SubSeq(order, a + 1, Len(order)), key)

(***************************************************************************)
(* tools.emo.assignCrowdingDist(front).  The script's distance is          *)
(*   sum over objectives m of (next_m - prev_m) / (2 * range_m),           *)
(* infinite at the ends of each objective's order; an objective whose      *)
(* range is 0 adds nothing.  All members of a front share the ranges, so   *)
(* the distances are compared here multiplied by 2 * range_0 * range_1     *)
(* (ranges of 0 taken as 1), which keeps them integers.  The distance is   *)
(* stored on the fitness object: of two places holding one object the      *)
(* later write stays.                                                      *)
(***************************************************************************)
Range(vals) ==
    LET hi == CHOOSE x \in vals : \A y \in vals : x >= y
        lo == CHOOSE x \in vals : \A y \in vals : x <= y
    IN hi - lo

CrowdingDist(individuals, front) ==
    LET n == Len(front)
        places == 1..n
        val(m) == [a \in places |-> individuals[front[a]].fit[m]]
        range(m) == Range({val(m)[a] : a \in places})
        scale(m) == IF range(m) = 0 THEN 1 ELSE range(m)
        inf == 2 * scale(1) * scale(2) + 1
        crowd1 == StableSort([a \in places |-> a], val(1))
        crowd2 == StableSort(crowd1, val(2))
        crowd(m) == IF m = 1 THEN crowd1 ELSE crowd2
        at(m, a) == CHOOSE x \in places : crowd(m)[x] = a
        ends(a) == \E m \in 1..2 : at(m, a) \in {1, n}
        part(m, a) ==
            IF range(m) = 0 \/ at(m, a) \in {1, n} THEN 0
            ELSE (val(m)[crowd(m)[at(m, a) + 1]] - val(m)[crowd(m)[at(m, a) - 1]])
                    * scale(3 - m)
        distances == [a \in places |->
                        IF ends(a) THEN inf ELSE part(1, a) + part(2, a)]
        last(a) == CHOOSE x \in places :
                      /\ individuals[front[x]].obj = individuals[front[a]].obj
                      /\ \A y \in places :
                            individuals[front[y]].obj = individuals[front[a]].obj => y <= x
    IN [a \in places |-> distances[last(a)]]

\* the last front is appended whole instead of its k best by distance
selNSGA2WholeFronts(individuals, k) ==
    LET pareto_fronts == sortNondominated(individuals, k)
        RECURSIVE Chain(_)
        Chain(f) == IF f > Len(pareto_fronts) THEN << >>
                    ELSE pareto_fronts[f] \o Chain(f + 1)
    IN Chain(1)

\* the k most isolated individuals of the pool, whatever their front
selNSGA2NoFronts(individuals, k) ==
    LET all == [a \in DOMAIN individuals |-> a]
        dist == CrowdingDist(individuals, all)
        sorted_all == StableSortDesc(all, dist)
    IN [a \in 1..k |-> sorted_all[a]]

selNSGA2(individuals, k) ==
    LET pareto_fronts == sortNondominated(individuals, k)
        nf == Len(pareto_fronts)
        RECURSIVE Chain(_)
        Chain(f) == IF f >= nf THEN << >> ELSE pareto_fronts[f] \o Chain(f + 1)
        chosen == Chain(1)
        rest == k - Len(chosen)
        lastFront == pareto_fronts[nf]
        dist == CrowdingDist(individuals, lastFront)
        sorted_front == StableSortDesc([a \in 1..Len(lastFront) |-> a], dist)
    IN IF rest > 0
       THEN chosen \o [a \in 1..Min(rest, Len(lastFront)) |-> lastFront[sorted_front[a]]]
       ELSE chosen

(***************************************************************************)
(* tools.Statistics(lambda ind: ind.fitness.values).compile(population)    *)
(* with avg, std and min over axis 0.  For a population of n individuals   *)
(* avg is kept as the sum (n * mean) and std as n * sum(x^2) - sum(x)^2    *)
(* (n^2 * variance).                                                       *)
(***************************************************************************)
RECURSIVE SumSeq(_, _)
SumSeq(f, i) == IF i > Len(f) THEN 0 ELSE f[i] + SumSeq(f, i + 1)

Compile(population) ==
    LET n == Len(population)
        col(m) == [i \in 1..n |-> population[i].fit[m]]
        sq(m) == [i \in 1..n |-> population[i].fit[m] * population[i].fit[m]]
        sum(m) == SumSeq(col(m), 1)
        least(m) == CHOOSE x \in {col(m)[i] : i \in 1..n} :
                        \A i \in 1..n : x <= col(m)[i]
    IN [avg |-> <<sum(1), sum(2)>>,
        std |-> <<n * SumSeq(sq(1), 1) - sum(1) * sum(1),
                  n * SumSeq(sq(2), 1) - sum(2) * sum(2)>>,
        min |-> <<least(1), least(2)>>]

(***************************************************************************)
(* algorithms.varOr(population, toolbox, lambda_, cxpb, mutpb).  A draw is *)
(* what the random source gives one iteration: the branch op_choice falls  *)
(* in, the parents, the cut-point draws, the mutated positions and values. *)
(***************************************************************************)
FlipSets == {F \in SUBSET Pos : Cardinality(F) <= MaxFlips}

Draws(population, cxpb, mutpb) ==
    {[op |-> "mate", a |-> a, b |-> b, r1 |-> r1, r2 |-> r2] :
        a \in {x \in DOMAIN population : cxpb > 0}, b \in DOMAIN population,
        r1 \in CxDraw1, r2 \in CxDraw2}
    \cup
    UNION {{[op |-> "mutate", a |-> a, flips |-> F, draw |-> d] :
              a \in {x \in DOMAIN population : mutpb > 0 /\ cxpb < 100},
              d \in [F -> RandInt(MutLow, MutUp)]} : F \in FlipSets}
    \cup
    {[op |-> "reproduce", a |-> a] :
        a \in {x \in DOMAIN population : cxpb + mutpb < 100}}

\* the individual itself is handed on, not a copy of it
CloneAlias(ind, fresh) == ind

\* toolbox.clone: a deep copy, a new object
Clone(ind, fresh) == [ind EXCEPT !.obj = fresh]

\* an operator that works in place on the object ind.obj leaves ind at every
\* place of the list that holds this object
WriteBack(population, ind) ==
    [i \in DOMAIN population |->
        IF population[i].obj = ind.obj THEN ind ELSE population[i]]

\* the fitness is left on the varied individual
KeepFitness(ind) == ind

\* del ind.fitness.values
DelFitness(ind) == [ind EXCEPT !.fit = NoFit]

\* one iteration of varOr's loop: the individual appended to offspring, and
\* the population as the in-place operators leave it.  The clone appended
\* is the object `fresh`; the second clone of a mating is dropped (object 0).
varOrStep(population, draw, fresh) ==
    IF draw.op = "mate"
    THEN LET mated == cxTwoPointCopy(Clone(population[draw.a], fresh),
                                     Clone(population[draw.b], 0),
                                     draw.r1, draw.r2)
             child == DelFitness(mated[1])
         IN [population |-> WriteBack(WriteBack(population, mated[2]), child),
             child |-> child]
    ELSE IF draw.op = "mutate"
    THEN LET child == DelFitness(mutUniformInt(Clone(population[draw.a], fresh),
                                               draw.flips, draw.draw))
         IN [population |-> WriteBack(population, child), child |-> child]
    ELSE [population |-> population, child |-> population[draw.a]]

RECURSIVE varOrLoop(_, _, _, _)
varOrLoop(population, draws, j, offspring) ==
    IF j > Len(draws)
    THEN [population |-> population, offspring |-> offspring]
    ELSE LET step == varOrStep(population, draws[j], Len(population) + j)
         IN varOrLoop(step.population, draws, j + 1,
                      Append(offspring, step.child))

varOr(population, draws) == varOrLoop(population, draws, 1, << >>)

\* random.sample(population, 2) draws two different places
DrawOk(draw) == draw.op = "mate" => draw.a # draw.b

\* ind.fitness.values = fit for the individuals with an invalid fitness
EvaluateInvalid(individuals) ==
    [i \in DOMAIN individuals |->
        IF Valid(individuals[i]) THEN individuals[i]
        ELSE [individuals[i] EXCEPT !.fit = fitness_function(individuals[i].genes)]]

Invalid(individuals) == {i \in DOMAIN individuals : ~Valid(individuals[i])}

\* population[:] = chosen: obj becomes the first place holding the object
Rebind(chosen) ==
    [i \in DOMAIN chosen |->
        [chosen[i] EXCEPT !.obj =
            CHOOSE x \in DOMAIN chosen :
                /\ chosen[x].obj = chosen[i].obj
                /\ \A y \in 1..(x - 1) : chosen[y].obj # chosen[i].obj]]

Select(individuals, k) ==
    LET places == selNSGA2(individuals, k)
    IN [a \in DOMAIN places |-> individuals[places[a]]]

(***************************************************************************)
(* State.                                                                  *)
(*   pc          where __main__ / eaMuPlusLambda stands                    *)
(*   phase       index of pb in the schedule                               *)
(*   gen         eaMuPlusLambda's gen                                      *)
(*   pop         eaMuPlusLambda's population (the list it was passed)      *)
(*   offspring   eaMuPlusLambda's offspring                                *)
(*   nevals      len(invalid_ind)                                          *)
(*   ealog       eaMuPlusLambda's logbook                                  *)
(*   hof         __main__'s hof (ParetoFront.items)                        *)
(*   population  __main__'s population                                     *)
(*   logbook     __main__'s logbook                                        *)
(*   cp          the checkpoint written ("none" before)                    *)
(*   pool_open   the multiprocessing pool                                  *)
(*   plot        the Pareto-front figure saved ("none" before)             *)
(* for the operators taken alone (SpecCx, SpecSel below):                  *)
(*   cx          a call of cxTwoPointCopy: its arguments and what it left  *)
(*   sel         a call of toolbox.select: the pool and the chosen         *)
(* and, for a call of pool.map seen from inside (SpecPool below):          *)
(*   workers     the pool's worker processes: what each is doing           *)
(*   envs        the `env` of each process: the steps taken since reset    *)
(*   taskq       the pool's task queue: the tasks no worker has taken      *)
(*   results     what came back for each task of the map call              *)
(*   batch       the arguments of the map call, as pickled for the workers *)
(*   trace       the calls each task made on its environment               *)
(***************************************************************************)
VARIABLES pc, phase, gen, pop, offspring, nevals, ealog, hof, population,
          logbook, cp, pool_open, plot, cx, sel, workers, envs, taskq,
          results, batch, trace

vars == <<pc, phase, gen, pop, offspring, nevals, ealog, hof, population,
          logbook, cp, pool_open, plot, cx, sel, env_kind, workers, envs,
          taskq, results, batch, trace>>

driver == <<pc, phase, gen, pop, offspring, nevals, ealog, hof, population,
            logbook, cp, pool_open, plot>>

inside == <<workers, envs, taskq, results, batch, trace>>

bench == <<cx, sel, env_kind, inside>>

Idle == [state |-> "idle"]

\* pool = mp.Pool(processes=8): the initializer argument is left at None
PoolInitializer == "none"

\* init_pool(): signal.signal(signal.SIGINT, signal.SIG_IGN)
init_pool == "ignore"

\* multiprocessing.pool.worker: `if initializer is not None: initializer()`;
\* otherwise the process keeps Python's handler, which raises
\* KeyboardInterrupt
WorkerSigint == IF PoolInitializer = "init_pool" THEN init_pool ELSE "default"

Workers == 1..processes

\* a worker between two tasks
Waiting(sigint) ==
    [stage |-> "idle", task |-> 0, t |-> 0, W |-> 0, I |-> 0, sigint |-> sigint]

\* one `env` for the whole pool
EnvOfShared(w) == 1

\* `env` is a module-level object: each process of the pool has its own
EnvOf(w) == w

\* env.reset(): the episode starts anew
EnvReset(env) == << >>

\* env.step(actions): the environment moves on and reports info
EnvStep(env, actions) ==
    [env |-> Append(env, actions), info |-> EnvInfo(actions)]

InitInside ==
    /\ workers = [w \in Workers |-> Waiting(WorkerSigint)]
    /\ envs = [w \in Workers |-> EnvReset(<< >>)]
    /\ taskq = << >>
    /\ results = << >>
    /\ batch = << >>
    /\ trace = << >>

InitDriver ==
    /\ pc = "call"
    /\ phase = 1
    /\ gen = 0
    /\ pop = << >>
    /\ offspring = << >>
    /\ nevals = 0
    /\ ealog = << >>
    /\ hof = << >>
    /\ population = << >>
    /\ logbook = << >>
    /\ cp = "none"
    /\ pool_open = TRUE
    /\ plot = "none"

Init ==
    /\ env_kind = "patrol"
    /\ InitDriver
    /\ InitInside
    /\ cx = Idle
    /\ sel = Idle

\* the hall of fame made anew for each phase
CallWithNewHof ==
    /\ pc = "call"
    /\ \E fresh \in Populations : pop' = fresh
    /\ ealog' = << >>
    /\ gen' = 0
    /\ offspring' = << >>
    /\ nevals' = 0
    /\ hof' = << >>
    /\ pc' = "evaluate"
    /\ UNCHANGED <<phase, population, logbook, cp, pool_open, plot>>
    /\ UNCHANGED bench

\* eaMuPlusLambda(population=toolbox.population(n=n_individuals), ...)
Call ==
    /\ pc = "call"
    /\ \E fresh \in Populations : pop' = fresh
    /\ ealog' = << >>
    /\ gen' = 0
    /\ offspring' = << >>
    /\ nevals' = 0
    /\ pc' = "evaluate"
    /\ UNCHANGED <<phase, hof, population, logbook, cp, pool_open, plot>>
    /\ UNCHANGED bench

\* fitnesses = toolbox.map(toolbox.evaluate, invalid_ind); assign them
Evaluate ==
    /\ pc = "evaluate"
    /\ IF gen = 0
       THEN /\ nevals' = Cardinality(Invalid(pop))
            /\ pop' = EvaluateInvalid(pop)
            /\ UNCHANGED offspring
       ELSE /\ nevals' = Cardinality(Invalid(offspring))
            /\ offspring' = EvaluateInvalid(offspring)
            /\ UNCHANGED pop
    /\ pc' = "archive"
    /\ UNCHANGED <<phase, gen, ealog, hof, population, logbook, cp, pool_open, plot>>
    /\ UNCHANGED bench

\* the fitnesses assigned one by one as they come, up to the episode that raises
EvaluateRaisesPartly ==
    /\ pc = "evaluate"
    /\ Invalid(IF gen = 0 THEN pop ELSE offspring) # {}
    /\ \E bad \in Invalid(IF gen = 0 THEN pop ELSE offspring) :
          LET upTo(individuals) ==
                 [i \in DOMAIN individuals |->
                     IF i < bad THEN EvaluateInvalid(individuals)[i]
                     ELSE individuals[i]]
          IN IF gen = 0
             THEN pop' = upTo(pop) /\ UNCHANGED offspring
             ELSE offspring' = upTo(offspring) /\ UNCHANGED pop
    /\ pc' = "failed"
    /\ UNCHANGED <<phase, gen, nevals, ealog, hof, population, logbook, cp,
                   pool_open, plot>>
    /\ UNCHANGED bench

\* the environment raises in an episode: pool.map re-raises in the driver,
\* nothing catches it and the script ends with the traceback
EvaluateRaises ==
    /\ pc = "evaluate"
    /\ Invalid(IF gen = 0 THEN pop ELSE offspring) # {}
    /\ pc' = "failed"
    /\ UNCHANGED <<phase, gen, pop, offspring, nevals, ealog, hof, population,
                   logbook, cp, pool_open, plot>>
    /\ UNCHANGED bench

\* halloffame.update(population) at generation 0, update(offspring) after
Archive ==
    /\ pc = "archive"
    /\ hof' = HofUpdate(hof, IF gen = 0 THEN pop ELSE offspring, 1)
    /\ pc' = IF gen = 0 THEN "record" ELSE "select"
    /\ UNCHANGED <<phase, gen, pop, offspring, nevals, ealog, population,
                   logbook, cp, pool_open, plot>>
    /\ UNCHANGED bench

\* population[:] = toolbox.select(population + offspring, mu)
SelectStep ==
    /\ pc = "select"
    /\ pop' = Rebind(Select(pop \o offspring, n_individuals))
    /\ pc' = "record"
    /\ UNCHANGED <<phase, gen, offspring, nevals, ealog, hof, population,
                   logbook, cp, pool_open, plot>>
    /\ UNCHANGED bench

\* the generation loop written as range(1, ngen + 2)
RecordOneMore ==
    /\ pc = "record"
    /\ ealog' = Append(ealog, [gen |-> gen, nevals |-> nevals,
                               stats |-> Compile(pop)])
    /\ pc' = IF gen < n_generations + 1 THEN "vary" ELSE "return"
    /\ UNCHANGED <<phase, gen, pop, offspring, nevals, hof, population,
                   logbook, cp, pool_open, plot>>
    /\ UNCHANGED bench

\* logbook.record(gen=gen, nevals=len(invalid_ind), **stats.compile(population))
Record ==
    /\ pc = "record"
    /\ ealog' = Append(ealog, [gen |-> gen, nevals |-> nevals,
                               stats |-> Compile(pop)])
    /\ pc' = IF gen < n_generations THEN "vary" ELSE "return"
    /\ UNCHANGED <<phase, gen, pop, offspring, nevals, hof, population,
                   logbook, cp, pool_open, plot>>
    /\ UNCHANGED bench

\* for gen in range(1, ngen + 1): offspring = varOr(population, toolbox, ...)
Vary ==
    /\ pc = "vary"
    /\ gen' = gen + 1
    /\ \E draws \in [1..n_individuals ->
                        Draws(pop, Schedule[phase][1], Schedule[phase][2])] :
          /\ \A j \in DOMAIN draws : DrawOk(draws[j])
          /\ offspring' = varOr(pop, draws).offspring
          /\ pop' = varOr(pop, draws).population
    /\ pc' = "evaluate"
    /\ UNCHANGED <<phase, nevals, ealog, hof, population, logbook, cp,
                   pool_open, plot>>
    /\ UNCHANGED bench

\* population, logbook = eaMuPlusLambda(...); next pb of the schedule
Return ==
    /\ pc = "return"
    /\ population' = pop
    /\ logbook' = ealog
    /\ IF phase < Len(Schedule)
       THEN phase' = phase + 1 /\ pc' = "call"
       ELSE phase' = phase /\ pc' = "sink"
    /\ UNCHANGED <<gen, pop, offspring, nevals, ealog, hof, cp, pool_open, plot>>
    /\ UNCHANGED bench

\* plot the front, pickle the checkpoint, pool.close()
Sink ==
    /\ pc = "sink"
    /\ cp' = [population |-> population, generation |-> 100,
              halloffame |-> hof, logbook |-> logbook]
    /\ plot' = [a \in DOMAIN hof |-> hof[a].fit]
    /\ pool_open' = FALSE
    /\ pc' = "done"
    /\ UNCHANGED <<phase, gen, pop, offspring, nevals, ealog, hof, population,
                   logbook>>
    /\ UNCHANGED bench

Next ==
    \/ Call
    \/ Evaluate
    \/ EvaluateRaises
    \/ Archive
    \/ SelectStep
    \/ Record
    \/ Vary
    \/ Return
    \/ Sink

Spec == Init /\ [][Next]_vars

(***************************************************************************)
(* The script is one sequential process that keeps running: whenever it    *)
(* has a next step, it takes one.  For the steps below that is weak        *)
(* fairness; halloffame.update, toolbox.select and varOr are computations  *)
(* that end, so the script does not stay in any of them for ever.          *)
(***************************************************************************)
Running ==
    \/ Call
    \/ Evaluate
    \/ Record
    \/ Return
    \/ Sink

SpecLive ==
    /\ Spec
    /\ WF_vars(Running)
    /\ []<>(pc \notin {"archive", "select", "vary"})

(***************************************************************************)
(* The end-to-end scenario: the same run, handed the stub environment.     *)
(***************************************************************************)
InitStub ==
    /\ env_kind = "stub"
    /\ InitDriver
    /\ InitInside
    /\ cx = Idle
    /\ sel = Idle

SpecStub == InitStub /\ [][Next]_vars

(***************************************************************************)
(* The operators taken alone, on arguments drawn from the individuals the  *)
(* run can hold: genes are actions or what the mutation writes, the        *)
(* fitness is the one evaluation gives.                                    *)
(***************************************************************************)
Evaluated ==
    {[genes |-> g, fit |-> fitness_function(g)] : g \in [Pos -> RandInt(MutLow, MutUp)]}

\* ind1, ind2 = toolbox.mate(ind1, ind2) on two clones
InitCx ==
    /\ env_kind = "patrol"
    /\ InitDriver
    /\ InitInside
    /\ sel = Idle
    /\ \E i1 \in Evaluated, i2 \in Evaluated :
          cx = [state |-> "ready",
                ind1 |-> [genes |-> i1.genes, fit |-> i1.fit, obj |-> 1],
                ind2 |-> [genes |-> i2.genes, fit |-> i2.fit, obj |-> 2]]

CxApply ==
    /\ cx.state = "ready"
    /\ \E r1 \in CxDraw1, r2 \in CxDraw2 :
          LET out == cxTwoPointCopy(cx.ind1, cx.ind2, r1, r2)
          IN cx' = [state |-> "done", ind1 |-> cx.ind1, ind2 |-> cx.ind2,
                    points |-> CxPoints(r1, r2),
                    out1 |-> out[1], out2 |-> out[2]]
    /\ UNCHANGED <<driver, sel, env_kind, inside>>

NextCx == CxApply

SpecCx == InitCx /\ [][NextCx]_vars

\* toolbox.select(population + offspring, mu) on an evaluated pool
InitSel ==
    /\ env_kind = "patrol"
    /\ InitDriver
    /\ InitInside
    /\ cx = Idle
    /\ \E g \in [1..(2 * n_individuals) -> Evaluated] :
          sel = [state |-> "ready",
                 pool |-> [i \in 1..(2 * n_individuals) |->
                             [genes |-> g[i].genes, fit |-> g[i].fit, obj |-> i]]]

SelApply ==
    /\ sel.state = "ready"
    /\ sel' = [state |-> "done", pool |-> sel.pool,
               chosen |-> selNSGA2(sel.pool, n_individuals)]
    /\ UNCHANGED <<driver, cx, env_kind, inside>>

NextSel == SelApply

SpecSel == InitSel /\ [][NextSel]_vars

(***************************************************************************)
(* toolbox.map = pool.map seen from inside, in the first call of           *)
(* eaMuPlusLambda: map pickles invalid_ind into tasks of one individual    *)
(* each (chunksize 1 while the batch is no larger than four times the      *)
(* pool), idle workers take them from the queue in order, each task runs   *)
(* fitness_function in the worker's process on the worker's own `env`, and *)
(* map returns the list of results once every task has sent one.  An       *)
(* episode may raise or never return, and the terminal may deliver SIGINT  *)
(* to every process of the foreground group.                               *)
(***************************************************************************)
\* invalid_ind = [ind for ind in individuals if not ind.fitness.valid]
InvalidPlaces(individuals) == Ascending(Invalid(individuals))

Current == IF gen = 0 THEN pop ELSE offspring

\* for ind, fit in zip(invalid_ind, fitnesses): ind.fitness.values = fit
AssignFits(individuals, fitnesses) ==
    LET places == InvalidPlaces(individuals)
    IN [i \in DOMAIN individuals |->
          IF Valid(individuals[i]) THEN individuals[i]
          ELSE LET k == CHOOSE x \in DOMAIN places : places[x] = i
               IN [individuals[i] EXCEPT !.fit = fitnesses[k].fit]]

\* fitnesses = toolbox.map(toolbox.evaluate, invalid_ind): the call
MapCall ==
    /\ pc = "evaluate"
    /\ LET places == InvalidPlaces(Current)
       IN /\ batch' = [k \in DOMAIN places |-> Current[places[k]].genes]
          /\ taskq' = [k \in DOMAIN places |-> k]
          /\ results' = [k \in DOMAIN places |-> [state |-> "none"]]
          /\ trace' = [k \in DOMAIN places |-> << >>]
          /\ nevals' = Len(places)
    /\ pc' = "mapping"
    /\ UNCHANGED <<phase, gen, pop, offspring, ealog, hof, population, logbook,
                   cp, pool_open, plot>>
    /\ UNCHANGED <<cx, sel, env_kind, workers, envs>>

\* an idle worker takes the next task from the queue
WorkerTake(w) ==
    /\ workers[w].stage = "idle"
    /\ taskq # << >>
    /\ workers' = [workers EXCEPT ![w].stage = "reset", ![w].task = Head(taskq)]
    /\ taskq' = Tail(taskq)
    /\ UNCHANGED <<driver, cx, sel, env_kind, envs, results, batch, trace>>

\* fitness_function: env.reset(); W = 0.0; I = 0.0
WorkerReset(w) ==
    /\ workers[w].stage = "reset"
    /\ envs' = [envs EXCEPT ![EnvOf(w)] = EnvReset(@)]
    /\ workers' = [workers EXCEPT ![w].stage = "step", ![w].t = 0,
                                  ![w].W = 0, ![w].I = 0]
    /\ trace' = [trace EXCEPT ![workers[w].task] = Append(@, [call |-> "reset"])]
    /\ UNCHANGED <<driver, cx, sel, env_kind, taskq, results, batch>>

\* fitness_function: one turn of `for t in range(individual.shape[0])`
WorkerStep(w) ==
    /\ workers[w].stage = "step"
    /\ workers[w].t < Len(batch[workers[w].task]) \div N
    /\ LET actions == Actions(batch[workers[w].task], workers[w].t)
           r == EnvStep(envs[EnvOf(w)], actions)
       IN /\ envs' = [envs EXCEPT ![EnvOf(w)] = r.env]
          /\ workers' = [workers EXCEPT ![w].t = @ + 1,
                                        ![w].W = @ + r.info.W,
                                        ![w].I = @ + r.info.I]
          /\ trace' = [trace EXCEPT ![workers[w].task] =
                          Append(@, [call |-> "step", actions |-> actions])]
    /\ UNCHANGED <<driver, cx, sel, env_kind, taskq, results, batch>>

\* fitness_function returns np.mean(W_tot), np.mean(I_tot) of its one run;
\* the worker puts the result on the pool's result queue
WorkerSend(w) ==
    /\ workers[w].stage = "step"
    /\ workers[w].t = Len(batch[workers[w].task]) \div N
    /\ results' = [results EXCEPT ![workers[w].task] =
                      [state |-> "ok", fit |-> <<workers[w].W, workers[w].I>>]]
    /\ workers' = [workers EXCEPT ![w] = Waiting(@.sigint)]
    /\ UNCHANGED <<driver, cx, sel, env_kind, envs, taskq, batch, trace>>

\* env.step raises: the worker sends the exception as the task's result
WorkerRaise(w) ==
    /\ workers[w].stage = "step"
    /\ workers[w].t < Len(batch[workers[w].task]) \div N
    /\ results' = [results EXCEPT ![workers[w].task] = [state |-> "exception"]]
    /\ workers' = [workers EXCEPT ![w] = Waiting(@.sigint)]
    /\ UNCHANGED <<driver, cx, sel, env_kind, envs, taskq, batch, trace>>

\* env.step never returns
WorkerStall(w) ==
    /\ workers[w].stage = "step"
    /\ workers[w].t < Len(batch[workers[w].task]) \div N
    /\ workers' = [workers EXCEPT ![w].stage = "stalled"]
    /\ UNCHANGED <<driver, cx, sel, env_kind, envs, taskq, results, batch, trace>>

\* pool.map hands the results over as soon as one task has sent its own
MapReturnEarly ==
    /\ pc = "mapping"
    /\ \E k \in DOMAIN results : results[k].state = "ok"
    /\ \A k \in DOMAIN results : results[k].state # "exception"
    /\ IF gen = 0
       THEN pop' = EvaluateInvalid(pop) /\ UNCHANGED offspring
       ELSE offspring' = EvaluateInvalid(offspring) /\ UNCHANGED pop
    /\ pc' = "archive"
    /\ UNCHANGED <<phase, gen, nevals, ealog, hof, population, logbook, cp,
                   pool_open, plot>>
    /\ UNCHANGED bench

\* pool.map returns: every task has sent its result; assign the fitnesses
MapReturn ==
    /\ pc = "mapping"
    /\ \A k \in DOMAIN results : results[k].state = "ok"
    /\ IF gen = 0
       THEN pop' = AssignFits(pop, results) /\ UNCHANGED offspring
       ELSE offspring' = AssignFits(offspring, results) /\ UNCHANGED pop
    /\ pc' = "archive"
    /\ UNCHANGED <<phase, gen, nevals, ealog, hof, population, logbook, cp,
                   pool_open, plot>>
    /\ UNCHANGED bench

\* pool.map re-raises the exception a task sent
MapRaises ==
    /\ pc = "mapping"
    /\ \E k \in DOMAIN results : results[k].state = "exception"
    /\ pc' = "failed"
    /\ UNCHANGED <<phase, gen, pop, offspring, nevals, ealog, hof, population,
                   logbook, cp, pool_open, plot>>
    /\ UNCHANGED bench

\* Ctrl-C while the driver waits in pool.map: SIGINT goes to every process
\* of the foreground group.  The driver's wait raises KeyboardInterrupt; a
\* worker with the default handler gets KeyboardInterrupt where it stands
\* (not an Exception: the worker's loop does not catch it) and dies.
Interrupt ==
    /\ pc = "mapping"
    /\ workers' = [w \in Workers |->
                      IF workers[w].sigint = "ignore" THEN workers[w]
                      ELSE [workers[w] EXCEPT !.stage = "killed"]]
    /\ pc' = "interrupted"
    /\ UNCHANGED <<phase, gen, pop, offspring, nevals, ealog, hof, population,
                   logbook, cp, pool_open, plot>>
    /\ UNCHANGED <<cx, sel, env_kind, envs, taskq, results, batch, trace>>

NextPool ==
    \/ Call
    \/ MapCall
    \/ \E w \in Workers : WorkerTake(w)
    \/ \E w \in Workers : WorkerReset(w)
    \/ \E w \in Workers : WorkerStep(w)
    \/ \E w \in Workers : WorkerSend(w)
    \/ \E w \in Workers : WorkerRaise(w)
    \/ \E w \in Workers : WorkerStall(w)
    \/ MapReturn
    \/ MapRaises
    \/ Interrupt
    \/ Archive
    \/ SelectStep
    \/ Record
    \/ Vary

SpecPool == Init /\ [][NextPool]_vars

(***************************************************************************)
(* Claims                                                                  *)
(***************************************************************************)

\* C1: every phase after the first starts from the population the previous
\* phase returned, never from a freshly generated one.
C1_PhaseContinuation ==
    [][(pc = "call" /\ phase > 1) => pop' = population]_vars

\* C2: every gene of every individual of the population and the offspring is
\* an action, an integer in [0, action_count).
C2_GeneRange ==
    \A ind \in {pop[i] : i \in DOMAIN pop} \cup {offspring[j] : j \in DOMAIN offspring} :
        \A i \in DOMAIN ind.genes : ind.genes[i] \in 0..(ActionCount - 1)

\* C3: the log of the finished run, the one put in the checkpoint, holds the
\* per-generation records of every phase of the schedule.
C3_LogHoldsEveryPhase ==
    pc = "done" => Len(cp.logbook) >= Len(Schedule) * n_generations

\* C4: when the archive update or the selection runs, every individual of
\* the pool (the population, and the offspring after generation 0) has a
\* valid fitness, which is the evaluation of its current genes.
C4_FitnessValid ==
    pc \in {"archive", "select"} =>
        \A ind \in {pop[i] : i \in DOMAIN pop}
                     \cup {offspring[j] : j \in DOMAIN offspring} :
            Valid(ind) /\ ind.fit = fitness_function(ind.genes)

\* C4 witness: selection is about to run on offspring whose genes variation
\* changed
C4_Witness ==
    /\ pc = "select"
    /\ \E j \in DOMAIN offspring : \A i \in DOMAIN pop :
          offspring[j].genes # pop[i].genes

MutuallyNonDominated(items) ==
    \A a, b \in DOMAIN items : ~Dominates(items[a].fit, items[b].fit)

Members(items) == {items[a] : a \in DOMAIN items}

\* C5: after every archive update no member dominates another, no candidate
\* an existing member dominates was added, and no member a new one dominates
\* was kept.
C5_ParetoArchive ==
    [][pc = "archive" =>
         /\ MutuallyNonDominated(hof')
         /\ \A new \in Members(hof') \ Members(hof) :
               /\ \A old \in Members(hof) : ~Dominates(old.fit, new.fit)
               /\ \A old \in Members(hof) :
                     Dominates(new.fit, old.fit) => old \notin Members(hof')]_vars

\* C5 witness: an update has put in two members and taken out the one that
\* was there
C5_Witness ==
    /\ pc = "select"
    /\ Len(hof) = 2
    /\ \A a \in DOMAIN hof : hof[a].fit # <<0, 0>>

\* C6: every point of the archive stays or is replaced by a point that
\* dominates or equals it, at every step of every phase (the archive is
\* never reset).
C6_ArchiveNeverWorse ==
    [][\A old \in Members(hof) : \E new \in Members(hof') :
          new.fit = old.fit \/ Dominates(new.fit, old.fit)]_vars

\* C6 witness: the archive of an earlier phase, updated in the last phase
C6_Witness ==
    /\ phase = Len(Schedule)
    /\ pc = "select"
    /\ Len(hof) >= 2

\* C7: from the start of the first phase on the population holds exactly
\* n_individuals individuals, after every selection as well.
C7_PopulationSize ==
    (pc = "call" /\ phase = 1) \/ Len(pop) = n_individuals

\* C7 witness: a selection from the pool of mu + lambda_ has been made
C7_Witness ==
    /\ pc = "record"
    /\ gen = 1
    /\ Len(pop \o offspring) = 2 * n_individuals
    /\ Len(pop) = n_individuals

Count(individuals, ind) ==
    Cardinality({i \in DOMAIN individuals :
                    /\ individuals[i].genes = ind.genes
                    /\ individuals[i].fit = ind.fit})

\* C8 (SpecSel): if the selection chose an individual that some individual
\* of the pool dominates, it chose every non-dominated individual of the pool.
C8_BetterFrontsFirst ==
    sel.state = "done" =>
        LET pool == sel.pool
            chosen == {sel.chosen[a] : a \in DOMAIN sel.chosen}
            dominated(x) == \E b \in DOMAIN pool : Dominates(pool[b].fit, pool[x].fit)
        IN (\E x \in chosen : dominated(x))
           => \A b \in DOMAIN pool : ~dominated(b) => b \in chosen

\* C8 witness: a dominated individual was chosen, and another one left out
C8_Witness ==
    /\ sel.state = "done"
    /\ \E x \in DOMAIN sel.chosen, b \in DOMAIN sel.pool :
          Dominates(sel.pool[b].fit, sel.pool[sel.chosen[x]].fit)
    /\ \E b \in DOMAIN sel.pool : \A x \in DOMAIN sel.chosen : sel.chosen[x] # b

GeneCount(genes, v) == Cardinality({i \in DOMAIN genes : genes[i] = v})

\* C9 (SpecCx): for any two individuals of equal length and any cut points,
\* the genes of both individuals after cxTwoPointCopy are, as a multiset,
\* the genes of both before, and both keep their length.
C9_CrossoverKeepsGenes ==
    cx.state = "done" =>
        /\ Len(cx.out1.genes) = Len(cx.ind1.genes)
        /\ Len(cx.out2.genes) = Len(cx.ind2.genes)
        /\ \A v \in RandInt(MutLow, MutUp) :
              GeneCount(cx.out1.genes, v) + GeneCount(cx.out2.genes, v)
                 = GeneCount(cx.ind1.genes, v) + GeneCount(cx.ind2.genes, v)

\* C9 witness: a crossover that changed both individuals
C9_Witness ==
    /\ cx.state = "done"
    /\ cx.out1.genes # cx.ind1.genes
    /\ cx.out2.genes # cx.ind2.genes

\* C10: when the environment raises in an evaluation, the archive, the logs
\* and every individual's fitness stay as they were, and the run stops there.
C10_FailureAtomic ==
    [][/\ pc' = "failed" =>
            /\ pc = "evaluate"
            /\ hof' = hof /\ ealog' = ealog /\ logbook' = logbook
            /\ pop' = pop /\ offspring' = offspring
       /\ pc # "failed"]_vars

\* C10 witness: the evaluation of a generation's offspring failed after a
\* completed generation
C10_Witness ==
    /\ pc = "failed"
    /\ gen = 1
    /\ Len(ealog) = 1
    /\ hof # << >>
    /\ \E j \in DOMAIN offspring : ~Valid(offspring[j])

\* C11 (SpecPool): in every interleaving of the workers, the environment of a
\* worker that is inside an episode has received, since that episode's reset,
\* the steps of that episode and nothing else, and every result that came
\* back is the fitness of the individual evaluated alone.
C11_EnvironmentIsolation ==
    /\ \A w \in Workers :
          workers[w].stage \in {"step", "stalled"} =>
             envs[EnvOf(w)] =
                [k \in 1..workers[w].t |->
                    [i \in 0..(N - 1) |->
                        batch[workers[w].task][(k - 1) * N + i + 1]]]
    /\ \A k \in DOMAIN results :
          results[k].state = "ok" => results[k].fit = fitness_function(batch[k])

C11_Witness ==
    \E w1 \in Workers, w2 \in Workers :
       /\ w1 # w2
       /\ workers[w1].stage = "step" /\ workers[w1].t >= 1
       /\ workers[w2].stage = "step" /\ workers[w2].t >= 1
       /\ batch[workers[w1].task] # batch[workers[w2].task]

\* C12 (SpecPool): every worker of the pool ignores SIGINT from its start, so
\* when the terminal interrupts the run no worker is killed, least of all in
\* the middle of an evaluation.
C12_WorkersIgnoreInterrupt ==
    pc = "interrupted" =>
       \A w \in Workers :
          workers[w].sigint = "ignore" /\ workers[w].stage # "killed"

\* some worker of the pool takes a step of its own
WorkerMoves ==
    \E w \in Workers :
       \/ WorkerTake(w) \/ WorkerReset(w) \/ WorkerStep(w)
       \/ WorkerSend(w) \/ WorkerRaise(w) \/ WorkerStall(w)

\* C13 (SpecPool): the driver never waits forever on an evaluation: when an
\* episode has stalled and no worker has anything left to do, the driver's
\* wait in pool.map can end (with the results, or with the failure the
\* stalled evaluation was turned into).
C13_NoIndefiniteBlocking ==
    (/\ pc = "mapping"
     /\ \E w \in Workers : workers[w].stage = "stalled"
     /\ ~ ENABLED WorkerMoves)
       => ENABLED (MapReturn \/ MapRaises)

AllZero(individuals) ==
    \A i \in DOMAIN individuals : \A x \in Pos : individuals[i].genes[x] = 0

ZeroFitness(individuals) ==
    \A i \in DOMAIN individuals : individuals[i].fit = <<0, 0>>

\* C14 (SpecStub): with the stub environment (W = sum(actions),
\* I = -sum(actions)), when every individual evaluated so far in the first
\* call has all-zero genes (the population at generation 0, the population and
\* the offspring at generation 1), each has fitness (0, 0) and the archive,
\* once updated, holds exactly one individual, the all-zero one.
C14_StubScenario ==
    (/\ env_kind = "stub"
     /\ phase = 1
     /\ AllZero(pop)
     /\ \/ gen = 0 /\ pc \in {"record", "vary"}
        \/ gen = 1 /\ pc = "select" /\ AllZero(offspring))
       => /\ ZeroFitness(pop)
          /\ gen = 1 => ZeroFitness(offspring)
          /\ Len(hof) = 1
          /\ \A x \in Pos : hof[1].genes[x] = 0
          /\ hof[1].fit = <<0, 0>>

C14_Witness ==
    /\ env_kind = "stub"
    /\ phase = 1 /\ gen = 1 /\ pc = "select"
    /\ AllZero(pop) /\ AllZero(offspring)
    /\ \E j \in DOMAIN offspring : offspring[j].obj > Len(pop)
    /\ Len(hof) = 1

\* the calls an evaluation of genes is to make on its environment, in order
Protocol(genes) ==
    <<[call |-> "reset"]>> \o
    [t \in 1..(Len(genes) \div N) |->
        [call |-> "step",
         actions |-> [i \in 0..(N - 1) |-> genes[(t - 1) * N + i + 1]]]]

\* C15 (SpecPool): every evaluation resets its environment once, before its
\* first step, then steps it horizon times, at t = 0..horizon-1 with the
\* actions {i -> gene[t*N + i]}, and returns the sums of info['W'] and of
\* info['I'] over the steps.
C15_EvaluationProtocol ==
    \A k \in DOMAIN results :
       /\ Len(trace[k]) <= Len(Protocol(batch[k]))
       /\ trace[k] = SubSeq(Protocol(batch[k]), 1, Len(trace[k]))
       /\ results[k].state = "ok" =>
             /\ trace[k] = Protocol(batch[k])
             /\ Len(trace[k]) = Horizon + 1
             /\ results[k].fit =
                   <<SumSeq([t \in 1..Horizon |->
                               EnvInfo(Protocol(batch[k])[t + 1].actions).W], 1),
                     SumSeq([t \in 1..Horizon |->
                               EnvInfo(Protocol(batch[k])[t + 1].actions).I], 1)>>

C15_Witness ==
    \E k \in DOMAIN results :
       /\ results[k].state = "ok"
       /\ \E x \in Pos, y \in Pos : batch[k][x] # batch[k][y]
       /\ results[k].fit # <<0, 0>>

\* C16 (SpecCx): for two individuals of equal length L >= 3 and every outcome
\* of the two draws, the cut points satisfy 1 <= p1 < p2 <= L - 1, and after
\* cxTwoPointCopy each individual holds the other's genes at the positions
\* p1..p2-1 (counted from 0) and its own everywhere else.
C16_CutPoints ==
    cx.state = "done" =>
       LET p1 == cx.points[1]
           p2 == cx.points[2]
           L == Len(cx.ind1.genes)
       IN /\ L >= 3 /\ Len(cx.ind2.genes) = L
          /\ 1 <= p1 /\ p1 < p2 /\ p2 <= L - 1
          /\ \A i \in 0..(L - 1) :
                IF p1 <= i /\ i <= p2 - 1
                THEN /\ cx.out1.genes[i + 1] = cx.ind2.genes[i + 1]
                     /\ cx.out2.genes[i + 1] = cx.ind1.genes[i + 1]
                ELSE /\ cx.out1.genes[i + 1] = cx.ind1.genes[i + 1]
                     /\ cx.out2.genes[i + 1] = cx.ind2.genes[i + 1]

C16_Witness ==
    /\ cx.state = "done"
    /\ cx.points = <<1, Len(cx.ind1.genes) - 1>>
    /\ cx.out1.genes # cx.ind1.genes
    /\ cx.out1.genes # cx.ind2.genes

\* an evaluation is in flight: a task waits in the queue or a worker is in one
InFlight ==
    \/ taskq # << >>
    \/ \E w \in Workers : workers[w].stage \in {"reset", "step", "stalled"}

GenesOf(individuals) == [i \in DOMAIN individuals |-> individuals[i].genes]

\* C17 (SpecPool): while any evaluation is in flight the driver stands in
\* pool.map (or has stopped on a failure or an interrupt), so variation starts
\* only after every evaluation has returned and the next evaluation step only
\* after variation; no step taken while an evaluation is in flight changes
\* the genes of an individual of the population or of the offspring.
C17_Barrier ==
    /\ [](InFlight => pc \in {"mapping", "failed", "interrupted"})
    /\ [][InFlight => /\ GenesOf(pop') = GenesOf(pop)
                      /\ GenesOf(offspring') = GenesOf(offspring)]_vars

C17_Witness ==
    /\ pc = "mapping"
    /\ gen = 1
    /\ \E w1 \in Workers, w2 \in Workers :
          /\ w1 # w2
          /\ workers[w1].stage = "step"
          /\ workers[w2].stage = "reset"
    /\ \E k \in DOMAIN results : results[k].state = "none"

\* C18 (SpecLive): each call of eaMuPlusLambda returns after exactly
\* n_generations generations (its log holds generations 0..n_generations),
\* the phase only moves from one entry of the schedule to the next, on a
\* return, and every run in which no episode raises reaches the final state:
\* all three phases done, the front plotted, the checkpoint written and the
\* pool closed.
C18_Termination ==
    /\ [](pc = "return" =>
             /\ gen = n_generations
             /\ Len(ealog) = n_generations + 1
             /\ \A g \in 0..n_generations : ealog[g + 1].gen = g)
    /\ [][phase' # phase => pc = "return" /\ phase' = phase + 1]_vars
    /\ [](pc = "done" =>
             /\ phase = Len(Schedule)
             /\ plot = [a \in DOMAIN hof |-> hof[a].fit]
             /\ cp.halloffame = hof /\ cp.population = population
             /\ ~ pool_open)
    /\ <>(pc = "failed" \/ pc = "done")

C18_Witness ==
    /\ pc = "done"
    /\ phase = Len(Schedule)
    /\ Len(plot) >= 1
    /\ Len(cp.logbook) = n_generations + 1
    /\ ~ pool_open

\* C19: the variation step leaves the population as it found it: the genes
\* and the fitness of every individual of the population are the same after
\* varOr as before, so selection is handed the unmodified parents and the
\* offspring.
C19_ParentsUnchanged ==
    [][pc = "vary" =>
          /\ pop' = pop
          /\ \A i \in DOMAIN pop : Valid(pop'[i])]_vars

C19_Witness ==
    /\ pc = "evaluate"
    /\ gen >= 1
    /\ \E j \in DOMAIN offspring :
          /\ ~ Valid(offspring[j])
          /\ \A i \in DOMAIN pop : offspring[j].genes # pop[i].genes
    /\ \A i \in DOMAIN pop : Valid(pop[i])

====
